---------------------------- MODULE Spec2Model ----------------------------
(***************************************************************************)
(* WWVB time code: the streaming frame synchronizer wwvbreceive            *)
(* (src/wwvbdec.py), driven symbol by symbol the way the round-trip tests  *)
(* of src/testwwvb.py drive it, and the minute model / frame codec of      *)
(* wwvblib that those tests call.  wwvblib itself is not among the source  *)
(* files; its operators below follow the specification (sections 3, 4.1 to *)
(* 4.3) and the positions the tests name.                                  *)
(***************************************************************************)
EXTENDS Integers, Sequences, FiniteSets, TLC

(***************************************************************************)
(* Symbol model: wwvblib.AmplitudeModulation.                              *)
(***************************************************************************)
ZERO == 0
ONE == 1
MARK == 2
AmplitudeModulation == {ZERO, ONE, MARK}

\* A generator's "yield None", and an empty decoder buffer.
None == << >>

\* wwvbdec.always_zero, 0-indexed positions within the minute.
always_zero == {4, 10, 11, 14, 20, 21, 34, 35, 44, 54}

\* uwwvb.always_mark, the marker schedule of a 60-symbol minute.
always_mark == {0, 9, 19, 29, 39, 49, 59}

(***************************************************************************)
(* Bounds of the model.                                                    *)
(***************************************************************************)
\* Minutes transmitted back to back after one lead-in.
NumMinutes == 3
\* Symbols of noise (inserted or replacing a frame symbol) in one run, all
\* of them before the final transmission.
MaxNoise == 1
\* Runs of rows of the IERS data, each of one offset.
MaxRuns == 2
\* Rows of the NIST table.
MaxNist == 2

(***************************************************************************)
(* Minute model (wwvblib.WWVBMinute), from the specification, section 3.   *)
(***************************************************************************)
EPOCH == 1970

isly(year) == (year % 4 = 0 /\ year % 100 # 0) \/ year % 400 = 0

DaysInYear(year) == IF isly(year) THEN 366 ELSE 365

\* full_year, but with 70 on the wrong side of the pivot.
full_year_pivot(year) ==
    IF year <= EPOCH % 100 THEN year + (EPOCH \div 100) * 100 + 100
    ELSE IF year < 100 THEN year + (EPOCH \div 100) * 100
    ELSE year

\* Two-digit years 0..69 read as 2000..2069, 70..99 as 1970..1999.
full_year(year) ==
    IF year < EPOCH % 100 THEN year + (EPOCH \div 100) * 100 + 100
    ELSE IF year < 100 THEN year + (EPOCH \div 100) * 100
    ELSE year

\* The external offset table: days at whose end a leap second is inserted,
\* as <<year, day of year>>.
LeapSecondDays ==
    {<<1972, 182>>, <<1972, 366>>, <<1992, 182>>, <<1998, 365>>,
     <<2012, 182>>, <<2016, 366>>}

\* lookup_dut1: the table's offset for a date, in deciseconds, -7..7.
get_dut1(year, days) == ((year * 3 + days) % 15) - 7

\* Daylight-saving code of a date, one of the four two-bit codes.
get_dst(year, days) ==
    IF days < 70 \/ days > 310 THEN 0
    ELSE IF days = 70 THEN 2
    ELSE IF days = 310 THEN 1
    ELSE 3

\* The constructor: the year is expanded, the other fields derived from
\* the date.
WWVBMinute(year, days, hour, min) ==
    LET y == full_year(year) IN
    [year |-> y, days |-> days, hour |-> hour, min |-> min,
     dst |-> get_dst(y, days),
     ut1 |-> get_dut1(y, days),
     ls |-> (<<y, days>> \in LeapSecondDays /\ hour = 23 /\ min = 59),
     ly |-> isly(y)]

\* "No value": what decode returns for a malformed frame.
NoMinute ==
    [year |-> 0, days |-> 0, hour |-> 0, min |-> 0,
     dst |-> 0, ut1 |-> 0, ls |-> FALSE, ly |-> FALSE]

\* Equality of minutes: the expanded year, day, hour and minute.
MinuteEq(a, b) ==
    /\ a.year = b.year
    /\ a.days = b.days
    /\ a.hour = b.hour
    /\ a.min = b.min


(***************************************************************************)
(* Minute arithmetic (specification, section 4.3).                         *)
(***************************************************************************)
next_minute(m) ==
    IF m.min < 59 THEN WWVBMinute(m.year, m.days, m.hour, m.min + 1)
    ELSE IF m.hour < 23 THEN WWVBMinute(m.year, m.days, m.hour + 1, 0)
    ELSE IF m.days < DaysInYear(m.year)
         THEN WWVBMinute(m.year, m.days + 1, 0, 0)
    ELSE WWVBMinute(m.year + 1, 1, 0, 0)

\* previous_minute, but the last day of the year before is taken from the
\* length of this year.
previous_minute_thisyear(m) ==
    IF m.min > 0 THEN WWVBMinute(m.year, m.days, m.hour, m.min - 1)
    ELSE IF m.hour > 0 THEN WWVBMinute(m.year, m.days, m.hour - 1, 59)
    ELSE IF m.days > 1 THEN WWVBMinute(m.year, m.days - 1, 23, 59)
    ELSE WWVBMinute(m.year - 1, DaysInYear(m.year), 23, 59)

previous_minute(m) ==
    IF m.min > 0 THEN WWVBMinute(m.year, m.days, m.hour, m.min - 1)
    ELSE IF m.hour > 0 THEN WWVBMinute(m.year, m.days, m.hour - 1, 59)
    ELSE IF m.days > 1 THEN WWVBMinute(m.year, m.days - 1, 23, 59)
    ELSE WWVBMinute(m.year - 1, DaysInYear(m.year - 1), 23, 59)

(***************************************************************************)
(* Frame codec (specification, sections 4.1 and 4.2).  Positions are the   *)
(* 0-indexed seconds of the minute; a Timecode's am is the sequence whose  *)
(* element p + 1 is the symbol of second p.                                *)
(***************************************************************************)
\* The BCD fields: <<position, weight>>, most significant bit first.
MinBits == {<<1, 40>>, <<2, 20>>, <<3, 10>>, <<5, 8>>, <<6, 4>>, <<7, 2>>, <<8, 1>>}
HourBits == {<<12, 20>>, <<13, 10>>, <<15, 8>>, <<16, 4>>, <<17, 2>>, <<18, 1>>}
DayBits ==
    {<<22, 200>>, <<23, 100>>, <<25, 80>>, <<26, 40>>, <<27, 20>>, <<28, 10>>,
     <<30, 8>>, <<31, 4>>, <<32, 2>>, <<33, 1>>}
Ut1Bits == {<<40, 8>>, <<41, 4>>, <<42, 2>>, <<43, 1>>}
YearBits ==
    {<<45, 80>>, <<46, 40>>, <<47, 20>>, <<48, 10>>,
     <<50, 8>>, <<51, 4>>, <<52, 2>>, <<53, 1>>}
DstBits == {<<57, 2>>, <<58, 1>>}

Abs(n) == IF n < 0 THEN -n ELSE n

Bool2Am(b) == IF b THEN ONE ELSE ZERO

\* BcdBit, but of the binary digits of v.
BcdBit_binary(v, w) == (v \div w) % 2 = 1

\* The bit of weight w (1, 2, 4, 8 times 1, 10 or 100) in the BCD digits of v.
BcdBit(v, w) ==
    LET place == IF w >= 100 THEN 100 ELSE IF w >= 10 THEN 10 ELSE 1
    IN  (((v \div place) % 10) \div (w \div place)) % 2 = 1

\* The symbol a field puts at position p, which one of its bits occupies.
FieldSym(bits, v, p) ==
    LET w == (CHOOSE b \in bits : b[1] = p)[2] IN Bool2Am(BcdBit(v, w))

Positions(bits) == {b[1] : b \in bits}

minute_length(m) == IF m.ls THEN 61 ELSE 60

\* The symbol the encoder puts at second p of minute m.
fill_am_timecode(m, p) ==
    IF p \in always_mark \/ p = 60 THEN MARK
    ELSE IF p \in Positions(MinBits) THEN FieldSym(MinBits, m.min, p)
    ELSE IF p \in Positions(HourBits) THEN FieldSym(HourBits, m.hour, p)
    ELSE IF p \in Positions(DayBits) THEN FieldSym(DayBits, m.days, p)
    ELSE IF p \in {36, 38} THEN Bool2Am(m.ut1 >= 0)
    ELSE IF p = 37 THEN Bool2Am(m.ut1 < 0)
    ELSE IF p \in Positions(Ut1Bits) THEN FieldSym(Ut1Bits, Abs(m.ut1), p)
    ELSE IF p \in Positions(YearBits) THEN FieldSym(YearBits, m.year % 100, p)
    ELSE IF p = 55 THEN Bool2Am(m.ly)
    ELSE IF p = 56 THEN Bool2Am(m.ls)
    ELSE IF p \in Positions(DstBits) THEN FieldSym(DstBits, m.dst, p)
    ELSE ZERO

\* encode: the amplitude symbols of minute m.
as_timecode(m) == [i \in 1..minute_length(m) |-> fill_am_timecode(m, i - 1)]

RECURSIVE SumWeights(_, _)
\* The value of a BCD field: the weights of its bits that carry ONE.
SumWeights(bits, am) ==
    IF bits = {} THEN 0
    ELSE LET b == CHOOSE x \in bits : TRUE
         IN  (IF am[b[1] + 1] = ONE THEN b[2] ELSE 0)
             + SumWeights(bits \ {b}, am)

\* Check 1: MARK at every marker position and nowhere else.
MarkersOk(am) ==
    \A p \in 0..(Len(am) - 1) :
        (am[p + 1] = MARK) <=> (p \in always_mark \/ p = 60)

\* AlwaysZeroOk, but the last always-zero position is not looked at.
AlwaysZeroOk_short(am) == \A p \in always_zero \ {54} : am[p + 1] = ZERO

\* Check 2: ZERO at every always-zero position.
AlwaysZeroOk(am) == \A p \in always_zero : am[p + 1] = ZERO

\* Check 3: the sign triple at 36..38 is one of its two legal codes.
SignOk(am) == am[37] = am[39] /\ am[38] # am[37]

\* decode: the minute of a Timecode, or NoMinute.
from_timecode_am(am) ==
    IF ~MarkersOk(am) THEN NoMinute
    ELSE IF ~AlwaysZeroOk(am) THEN NoMinute
    ELSE IF ~SignOk(am) THEN NoMinute
    ELSE LET ly == am[56] = ONE
             days == SumWeights(DayBits, am)
             hour == SumWeights(HourBits, am)
             min == SumWeights(MinBits, am)
             mag == SumWeights(Ut1Bits, am)
         IN  IF days < 1 \/ days > (IF ly THEN 366 ELSE 365) THEN NoMinute
             ELSE IF hour > 23 \/ min > 59 THEN NoMinute
             ELSE [year |-> full_year(SumWeights(YearBits, am)),
                   days |-> days, hour |-> hour, min |-> min,
                   dst |-> SumWeights(DstBits, am),
                   ut1 |-> IF am[37] = ONE THEN mag ELSE -mag,
                   ls |-> am[57] = ONE,
                   ly |-> ly]

(***************************************************************************)
(* The streaming synchronizer: the generator wwvbreceive.  One send(value) *)
(* runs the loop from the yield the generator is suspended at to the next  *)
(* yield.  The result is the generator's locals and the value it yields.   *)
(***************************************************************************)
VARIABLES
    state,      \* wwvbreceive's state, 1..4
    minute,     \* wwvbreceive's buffer
    value,      \* the symbol last sent
    out,        \* what the last send returned: None or a Timecode's am
    \* The transmission feeding the decoder (the loops of test_decode and
    \* test_noise).
    cur,        \* the minute being transmitted
    tc,         \* its Timecode's am
    pos,        \* symbols of tc sent so far
    done,       \* minutes completed since the last lead-in
    decoded,    \* test_decode's "decoded": the emission of this minute
    ndec,       \* emissions while this minute's symbols were sent
    phase,      \* "idle", then "first" and "final" transmission
    noise,      \* noise symbols sent
    dirty,      \* noise was sent since the last lead-in
    emitted,    \* some Timecode has been emitted
    quiet,      \* nothing had been emitted when the last lead-in began
    pre,        \* the synchronizer's state and buffer length at that time
    noisyCur,   \* noise was sent since this minute began
    noisyPrev,  \* noise was sent during the minute before
    \* What an observer of decoder.send records.
    marks,      \* MARKs sent in a row up to the last symbol, counted to 3
    gap,        \* symbols sent since the last emission, counted to 60
    fed,        \* the symbols sent since the buffer was last empty, and
                \* the two before them
    \* The codec tests (test_roundtrip, test_noise2, test_epoch,
    \* test_previous_next_minute).
    cpc, cin, cmin, ctc, cdec, cnext, cprev, cbad,
    \* Two synchronizers side by side.
    heap,       \* the lists, by address
    inst,       \* the locals of each generator: state, address of minute
    held,       \* the address of the list of the Timecode each caller holds
    snap,       \* what that list held when the Timecode was returned
    ret,        \* what the last send to each decoder returned
    alone,      \* each decoder's stream run through wwvbreceive by itself
    stream,     \* the stream of each decoder
    tpos,       \* symbols of it sent
    \* update_iersdata.
    ipc,        \* where update_iersdata is
    jd,         \* the MJD of the first row of the IERS data
    offsets,    \* update_iersdata's offsets, in runs
    table_start,
    nruns,      \* runs of rows read
    nnist,      \* rows of the NIST table read
    wwvb_dut1,
    wwvb_start

syncVars == <<state, minute, value, out>>
histVars == <<marks, gap, fed>>
feedVars ==
    <<cur, tc, pos, done, decoded, ndec, phase, noise, dirty, emitted,
      quiet, pre, noisyCur, noisyPrev, histVars>>
codecVars == <<cpc, cin, cmin, ctc, cdec, cnext, cprev, cbad>>
twoVars == <<heap, inst, held, snap, ret, alone, stream, tpos>>
iersVars ==
    <<ipc, jd, offsets, table_start, nruns, nnist, wwvb_dut1, wwvb_start>>
vars == <<syncVars, feedVars, codecVars, twoVars, iersVars>>

\* State 1, unsynchronized: the buffer is dropped; a MARK is the first
\* marker of a lead-in.
Unsynced(value_) ==
    [state |-> IF value_ = MARK THEN 2 ELSE 1, minute |-> << >>, out |-> None]

\* OneMarker, but a symbol that is no MARK leaves the state alone.
OneMarker_stay(minute_, value_) ==
    [state |-> IF value_ = MARK THEN 3 ELSE 2, minute |-> minute_, out |-> None]

\* State 2, one marker.
OneMarker(minute_, value_) ==
    [state |-> IF value_ = MARK THEN 3 ELSE 1, minute |-> minute_, out |-> None]

\* TwoMarkers, but the buffer starts with ZERO in the place of the MARK of
\* position 0.
TwoMarkers_zero(minute_, value_) ==
    IF value_ # MARK
    THEN [state |-> 4, minute |-> <<ZERO, value_>>, out |-> None]
    ELSE [state |-> 3, minute |-> minute_, out |-> None]

\* State 3, two markers.
TwoMarkers(minute_, value_) ==
    IF value_ # MARK
    THEN [state |-> 4, minute |-> <<MARK, value_>>, out |-> None]
    ELSE [state |-> 3, minute |-> minute_, out |-> None]

\* Decoding, but a full minute leaves the decoder unsynchronized.
Decoding_lost(minute_, value_) ==
    LET m == Append(minute_, value_) IN
    IF Len(m) % 10 = 0 /\ value_ # MARK THEN Unsynced(value_)
    ELSE IF Len(m) % 10 # 0 /\ value_ = MARK THEN Unsynced(value_)
    ELSE IF (Len(m) - 1) \in always_zero /\ value_ # ZERO THEN Unsynced(value_)
    ELSE IF Len(m) = 60 THEN [state |-> 1, minute |-> << >>, out |-> m]
    ELSE [state |-> 4, minute |-> m, out |-> None]

\* Decoding, but a rejecting branch yields at once, in state 1, and the
\* rejected symbol is not looked at again.
Decoding_yield(minute_, value_) ==
    LET m == Append(minute_, value_)
        reject == [state |-> 1, minute |-> << >>, out |-> None]
    IN
    IF Len(m) % 10 = 0 /\ value_ # MARK THEN reject
    ELSE IF Len(m) % 10 # 0 /\ value_ = MARK THEN reject
    ELSE IF (Len(m) - 1) \in always_zero /\ value_ # ZERO THEN reject
    ELSE IF Len(m) = 60 THEN [state |-> 2, minute |-> << >>, out |-> m]
    ELSE [state |-> 4, minute |-> m, out |-> None]

\* Decoding, but the minute is full one symbol late.
Decoding_61(minute_, value_) ==
    LET m == Append(minute_, value_) IN
    IF Len(m) % 10 = 0 /\ value_ # MARK THEN Unsynced(value_)
    ELSE IF Len(m) % 10 # 0 /\ value_ = MARK THEN Unsynced(value_)
    ELSE IF (Len(m) - 1) \in always_zero /\ value_ # ZERO THEN Unsynced(value_)
    ELSE IF Len(m) = 61 THEN [state |-> 2, minute |-> << >>, out |-> m]
    ELSE [state |-> 4, minute |-> m, out |-> None]

\* Decoding, but a full minute counts its last MARK and the one before the
\* minute as two markers.
Decoding_two(minute_, value_) ==
    LET m == Append(minute_, value_) IN
    IF Len(m) % 10 = 0 /\ value_ # MARK THEN Unsynced(value_)
    ELSE IF Len(m) % 10 # 0 /\ value_ = MARK THEN Unsynced(value_)
    ELSE IF (Len(m) - 1) \in always_zero /\ value_ # ZERO THEN Unsynced(value_)
    ELSE IF Len(m) = 60 THEN [state |-> 3, minute |-> << >>, out |-> m]
    ELSE [state |-> 4, minute |-> m, out |-> None]

\* Decoding, but the minute is full ten symbols early.
Decoding_50(minute_, value_) ==
    LET m == Append(minute_, value_) IN
    IF Len(m) % 10 = 0 /\ value_ # MARK THEN Unsynced(value_)
    ELSE IF Len(m) % 10 # 0 /\ value_ = MARK THEN Unsynced(value_)
    ELSE IF (Len(m) - 1) \in always_zero /\ value_ # ZERO THEN Unsynced(value_)
    ELSE IF Len(m) = 50 THEN [state |-> 2, minute |-> << >>, out |-> m]
    ELSE [state |-> 4, minute |-> m, out |-> None]

\* Decoding, but without the check of the always-zero positions.
Decoding_nozero(minute_, value_) ==
    LET m == Append(minute_, value_) IN
    IF Len(m) % 10 = 0 /\ value_ # MARK THEN Unsynced(value_)
    ELSE IF Len(m) % 10 # 0 /\ value_ = MARK THEN Unsynced(value_)
    ELSE IF Len(m) = 60 THEN [state |-> 2, minute |-> << >>, out |-> m]
    ELSE [state |-> 4, minute |-> m, out |-> None]

\* State 4, decoding a minute.  The three rejecting branches set state 1
\* and do not yield: the loop runs again with the same value, in state 1.
Decoding(minute_, value_) ==
    LET m == Append(minute_, value_) IN
    IF Len(m) % 10 = 0 /\ value_ # MARK THEN Unsynced(value_)
    ELSE IF Len(m) % 10 # 0 /\ value_ = MARK THEN Unsynced(value_)
    ELSE IF (Len(m) - 1) \in always_zero /\ value_ # ZERO THEN Unsynced(value_)
    ELSE IF Len(m) = 60 THEN [state |-> 2, minute |-> << >>, out |-> m]
    ELSE [state |-> 4, minute |-> m, out |-> None]

wwvbreceive(state_, minute_, value_) ==
    IF state_ = 1 THEN Unsynced(value_)
    ELSE IF state_ = 2 THEN OneMarker(minute_, value_)
    ELSE IF state_ = 3 THEN TwoMarkers(minute_, value_)
    ELSE Decoding(minute_, value_)

\* The last two symbols of a sequence, or all it has.
LastTwo(s) == IF Len(s) <= 2 THEN s ELSE SubSeq(s, Len(s) - 1, Len(s))

\* decoder.send(v): the caller hands v to the suspended generator and gets
\* what it yields next.
Send(v) ==
    LET r == wwvbreceive(state, minute, v) IN
    /\ value' = v
    /\ state' = r.state
    /\ minute' = r.minute
    /\ out' = r.out
    /\ emitted' = (emitted \/ r.out # None)
    /\ marks' = IF v # MARK THEN 0 ELSE IF marks < 3 THEN marks + 1 ELSE 3
    /\ gap' = IF r.out # None THEN 0 ELSE IF gap < 60 THEN gap + 1 ELSE 60
    /\ fed' = IF r.minute = << >> THEN LastTwo(Append(fed, v))
              ELSE Append(fed, v)

\* decoded = decoder.send(code) or decoded
Keep ==
    /\ decoded' = IF out' # None THEN out' ELSE decoded
    /\ ndec' = IF out' # None THEN ndec + 1 ELSE ndec

(***************************************************************************)
(* The transmission.                                                       *)
(***************************************************************************)
\* Minutes a transmission starts at: before the leap seconds at the end of
\* 1992-06-30 and of 2016-12-31.
StartMinutes ==
    {WWVBMinute(1992, 182, 23, 58), WWVBMinute(2016, 366, 23, 59)}

StartTimecodes == [m \in StartMinutes |-> as_timecode(m)]

\* A lead-in MARK, then minute m from its first symbol.
Begin(m) ==
    /\ Send(MARK)
    /\ decoded' = None
    /\ ndec' = IF out' # None THEN 1 ELSE 0
    /\ cur' = m
    /\ tc' = StartTimecodes[m]
    /\ pos' = 0
    /\ done' = 0
    /\ dirty' = FALSE
    /\ quiet' = ~emitted
    /\ pre' = [state |-> state, len |-> Len(minute)]
    /\ noisyCur' = FALSE
    /\ noisyPrev' = FALSE
    /\ UNCHANGED <<noise, codecVars, twoVars, iersVars>>

\* decoder.send(MARK) before the first minute (test_decode).
LeadIn(m) ==
    /\ phase = "idle"
    /\ phase' = "first"
    /\ Begin(m)

\* The MARK between the junk and the frame (test_noise): what was sent so
\* far is the junk, what follows is received without noise.
Resume(m) ==
    /\ phase = "first"
    /\ phase' = "final"
    /\ Begin(m)

\* for code in timecode.am: decoded = decoder.send(code) or decoded
FrameSymbol ==
    /\ phase # "idle"
    /\ pos < Len(tc)
    /\ Send(tc[pos + 1])
    /\ Keep
    /\ pos' = pos + 1
    /\ UNCHANGED <<cur, tc, done, phase, noise, dirty, quiet, pre, noisyCur,
                   noisyPrev, codecVars, twoVars, iersVars>>

\* minute = minute.next_minute(); timecode = minute.as_timecode()
AdvanceMinute ==
    /\ phase # "idle"
    /\ pos = Len(tc)
    /\ done + 1 < NumMinutes
    /\ cur' = next_minute(cur)
    /\ tc' = as_timecode(cur')
    /\ pos' = 0
    /\ done' = done + 1
    /\ decoded' = None
    /\ ndec' = 0
    /\ noisyCur' = FALSE
    /\ noisyPrev' = noisyCur
    /\ UNCHANGED <<syncVars, histVars, phase, noise, dirty, emitted, quiet, pre,
                   codecVars, twoVars, iersVars>>

\* Reception noise: a symbol of the frame arrives as another symbol.
Corrupt(v) ==
    /\ phase # "idle"
    /\ phase # "final"
    /\ pos < Len(tc)
    /\ noise < MaxNoise
    /\ v # tc[pos + 1]
    /\ Send(v)
    /\ Keep
    /\ pos' = pos + 1
    /\ noise' = noise + 1
    /\ dirty' = TRUE
    /\ noisyCur' = TRUE
    /\ UNCHANGED <<cur, tc, done, phase, quiet, pre, noisyPrev, codecVars,
                   twoVars, iersVars>>

\* Reception noise: a symbol that is no part of the transmission (the junk
\* of test_noise).
Junk(v) ==
    /\ phase # "final"
    /\ noise < MaxNoise
    /\ Send(v)
    /\ Keep
    /\ noise' = noise + 1
    /\ dirty' = TRUE
    /\ noisyCur' = TRUE
    /\ UNCHANGED <<cur, tc, pos, done, phase, quiet, pre, noisyPrev, codecVars,
                   twoVars, iersVars>>

(***************************************************************************)
(* Two synchronizers side by side.  Here the lists of wwvbreceive are      *)
(* objects of a heap: a local holds the address of a list, [] and the      *)
(* Timecode's constructor make a new list, append and slice assignment     *)
(* change a list in place.  Each decoder is fed its own stream; the sends  *)
(* to the two interleave freely.                                           *)
(***************************************************************************)
Inst == {1, 2}
Addr == 1..6
Null == 0

\* A shared list in the place of every new one.
Alloc_shared(used) == 1

\* The address of a new list: one that nothing refers to.
Alloc(used) == CHOOSE a \in Addr \ used : \A b \in Addr \ used : a <= b

\* An address is no more than the name of a list: the lists are named anew
\* in the order the sequence roots refers to them.
Rank(roots, a) ==
    IF a = Null THEN Null
    ELSE LET first == CHOOSE k \in DOMAIN roots :
                          roots[k] = a /\ \A j \in 1..(k - 1) : roots[j] # a
         IN Cardinality({roots[j] : j \in 1..first} \ {Null})

\* Lists nothing refers to any more are freed.
Collect(h, roots) ==
    LET live == {roots[k] : k \in DOMAIN roots} \ {Null} IN
    [b \in Addr |->
        IF \E a \in live : Rank(roots, a) = b
        THEN h[CHOOSE a \in live : Rank(roots, a) = b]
        ELSE << >>]

\* One send(value_) to a generator whose locals are state_ and the address
\* minute_, on the heap h; used are the addresses other objects hold.  The
\* result is the heap, the locals, and the address of the list of the
\* Timecode yielded (Null for None).
GeneratorStep(h, state_, minute_, value_, used) ==
    LET state1(hh) ==
            LET a == Alloc(used) IN
            [heap |-> [hh EXCEPT ![a] = << >>],
             state |-> IF value_ = MARK THEN 2 ELSE 1,
             minute |-> a, tc |-> Null]
    IN
    IF state_ = 1 THEN state1(h)
    ELSE IF state_ = 2 THEN
        [heap |-> h, state |-> IF value_ = MARK THEN 3 ELSE 1,
         minute |-> minute_, tc |-> Null]
    ELSE IF state_ = 3 THEN
        IF value_ # MARK
        THEN LET a == Alloc(used) IN
             [heap |-> [h EXCEPT ![a] = <<MARK, value_>>], state |-> 4,
              minute |-> a, tc |-> Null]
        ELSE [heap |-> h, state |-> 3, minute |-> minute_, tc |-> Null]
    ELSE
        LET h1 == [h EXCEPT ![minute_] = Append(@, value_)]
            n == Len(h1[minute_])
        IN
        IF n % 10 = 0 /\ value_ # MARK THEN state1(h1)
        ELSE IF n % 10 # 0 /\ value_ = MARK THEN state1(h1)
        ELSE IF (n - 1) \in always_zero /\ value_ # ZERO THEN state1(h1)
        ELSE IF n = 60 THEN
            LET t == Alloc(used)
                h2 == [h1 EXCEPT ![t] = h1[minute_]]
                a == Alloc(used \cup {t})
            IN
            [heap |-> [h2 EXCEPT ![a] = << >>], state |-> 2, minute |-> a,
             tc |-> t]
        ELSE [heap |-> h1, state |-> 4, minute |-> minute_, tc |-> Null]

\* What a decoder is fed: a lead-in MARK and two consecutive minutes, with or
\* without junk before it.  The two decoders are fed different minutes.
JunkPrefix == <<MARK, MARK, ZERO, ONE>>

StartOf(i) ==
    IF i = 1 THEN WWVBMinute(1992, 182, 23, 58)
    ELSE WWVBMinute(2016, 366, 23, 59)

Streams ==
    [i \in Inst |->
        {p \o <<MARK>> \o StartTimecodes[StartOf(i)]
           \o as_timecode(next_minute(StartOf(i))) :
            p \in {<< >>, JunkPrefix}}]

\* decoder = wwvbreceive(); next(decoder), twice.
TwoFresh ==
    /\ heap = [a \in Addr |-> << >>]
    /\ inst = [i \in Inst |->
                 [state |-> 1,
                  minute |-> IF i = 1 THEN Alloc({})
                             ELSE Alloc({Alloc({})})]]
    /\ held = [i \in Inst |-> Null]
    /\ snap = [i \in Inst |-> None]
    /\ ret = [i \in Inst |-> None]
    /\ alone = [i \in Inst |-> [state |-> 1, minute |-> << >>, out |-> None]]
    /\ tpos = [i \in Inst |-> 0]

TwoIdle == TwoFresh /\ stream = [i \in Inst |-> << >>]

(***************************************************************************)
(* The generator of the DUT1 table, update_iersdata.  A date is its        *)
(* Modified Julian Date, date(1858, 11, 17) + timedelta(jd).  The list     *)
(* offsets holds one entry per day; it is kept here as a sequence of runs  *)
(* <<value, days>>, as update_iersdata itself writes it out (groupby).     *)
(***************************************************************************)
D1972_06_01 == 41469
D1972_07_01 == 41499
D2009_01_01 == 54832
D2009_03_12 == 54902

\* round(x), for x = n / d with d > 0: to the nearest integer, a tie to the
\* even one.
RoundHalfEven(n, d) ==
    LET q == n \div d
        r == n % d
    IN IF 2 * r > d \/ (2 * r = d /\ q % 2 = 1) THEN q + 1 ELSE q

\* int(round(float(offs_str) * 10)), but for 100 deciseconds in a second.
offs_centi(ms) == RoundHalfEven(ms, 10)

\* int(round(float(offs_str) * 10)): offs_str is in seconds, here given in
\* milliseconds.
offs(ms) == RoundHalfEven(ms, 100)

\* [val] * n
Rep(val, n) == IF n > 0 THEN <<<<val, n>>>> ELSE << >>

\* len(offsets)
RECURSIVE RunsLen(_)
RunsLen(r) == IF r = << >> THEN 0 ELSE r[1][2] + RunsLen(Tail(r))

\* offsets[:k] and offsets[k:], for 0 <= k
RECURSIVE TakeRuns(_, _)
TakeRuns(r, k) ==
    IF k <= 0 \/ r = << >> THEN << >>
    ELSE IF r[1][2] <= k THEN <<r[1]>> \o TakeRuns(Tail(r), k - r[1][2])
    ELSE <<<<r[1][1], k>>>>

RECURSIVE DropRuns(_, _)
DropRuns(r, k) ==
    IF k <= 0 \/ r = << >> THEN r
    ELSE IF r[1][2] <= k THEN DropRuns(Tail(r), k - r[1][2])
    ELSE <<<<r[1][1], r[1][2] - k>>>> \o Tail(r)

\* Equal neighbours are one run (groupby).
RECURSIVE Runs(_)
Runs(r) ==
    IF Len(r) < 2 THEN r
    ELSE IF r[1][1] = r[2][1]
         THEN Runs(<<<<r[1][1], r[1][2] + r[2][2]>>>> \o Tail(Tail(r)))
         ELSE <<r[1]>> \o Runs(Tail(r))

\* The bound of a slice of a list of n entries.
SliceIndex(i, n) ==
    IF i < 0 THEN (IF i + n < 0 THEN 0 ELSE i + n)
    ELSE IF i > n THEN n ELSE i

\* patch(patch_start, patch_end, val) on the list offsets_ that starts at
\* table_start_: offsets[off_start:off_end] = [val] * (off_end - off_start)
patch(offsets_, table_start_, patch_start, patch_end, val) ==
    LET off_start == patch_start - table_start_
        off_end == patch_end - table_start_
        n == RunsLen(offsets_)
        a == SliceIndex(off_start, n)
        b == SliceIndex(off_end, n)
    IN Runs(TakeRuns(offsets_, a) \o Rep(val, off_end - off_start)
            \o DropRuns(offsets_, IF b < a THEN a ELSE b))

\* What the first row of the IERS data adds before its own entry, if the
\* data start at jd_, after 1972-06-01: -2 for the days of June 1972, 8 for
\* the days from 1972-07-01 to the day before jd_.
Padding(jd_) ==
    IF jd_ > D1972_06_01
    THEN Rep(-2, D1972_07_01 - D1972_06_01) \o Rep(8, jd_ - D1972_07_01)
    ELSE << >>

\* The inputs: the MJD of the first row of the IERS data; UT1-UTC of its
\* rows, in milliseconds, within 0.7 s; the number of consecutive rows that
\* give the same offset; the dates and the DUT1 values of the rows of the
\* NIST table, within 0.7 s; the date the NIST page was modified.
IersStarts == {41400, D1972_06_01, 41480, D1972_07_01, 41684}
IersValues == {-700, 50, 700}
IersRows == {1, 13300}
NistDates == {41450, 54000, 59000}
NistValues == {-600, 700}
NistStamps == {59379, 60500}

IersIdle ==
    /\ ipc = "idle"
    /\ jd = 0
    /\ offsets = << >>
    /\ table_start = 0
    /\ nruns = 0
    /\ nnist = 0
    /\ wwvb_dut1 = 0
    /\ wwvb_start = 0

CodecIdle ==
    /\ cpc = "idle"
    /\ cin = <<0, 1, 0, 0>>
    /\ cmin = NoMinute
    /\ ctc = << >>
    /\ cdec = NoMinute
    /\ cnext = NoMinute
    /\ cprev = NoMinute
    /\ cbad = FALSE

\* decoder = wwvbreceive(); next(decoder): the generator runs to its first
\* yield.
SyncFresh ==
    /\ state = 1
    /\ minute = << >>
    /\ value = ZERO
    /\ out = None

FeedIdle ==
    /\ cur = NoMinute
    /\ tc = << >>
    /\ pos = 0
    /\ done = 0
    /\ decoded = None
    /\ ndec = 0
    /\ phase = "idle"
    /\ noise = 0
    /\ dirty = FALSE
    /\ emitted = FALSE
    /\ quiet = TRUE
    /\ pre = [state |-> 1, len |-> 0]
    /\ noisyCur = FALSE
    /\ noisyPrev = FALSE
    /\ marks = 0
    /\ gap = 0
    /\ fed = << >>

Init == SyncFresh /\ FeedIdle /\ CodecIdle /\ TwoIdle /\ IersIdle

Next ==
    \/ \E m \in StartMinutes : LeadIn(m)
    \/ \E m \in StartMinutes : Resume(m)
    \/ FrameSymbol
    \/ AdvanceMinute
    \/ \E v \in AmplitudeModulation : Corrupt(v)
    \/ \E v \in AmplitudeModulation : Junk(v)

Spec == Init /\ [][Next]_vars

(***************************************************************************)
(* The codec tests: a minute is constructed from (year, day of year, hour, *)
(* minute), encoded, possibly hit by one wrong symbol (test_noise2), and   *)
(* decoded (test_roundtrip); or stepped forward and back                   *)
(* (test_previous_next_minute).                                            *)
(***************************************************************************)
\* Years given in full, within the epoch, for the tests over whole days.
SampleYears == {EPOCH, 1992, 1999, 2000, 2012, 2016, EPOCH + 99}

\* Constructor arguments: every two-digit and every full year of the epoch
\* on January 1st; the ends of months, of leap days and of years; every day
\* of 2012; every hour and every minute of 2012-06-30.
CodecInputs ==
    {a \in ((0..99) \cup (EPOCH..(EPOCH + 99))) \X {1} \X {0} \X {0} : TRUE}
    \cup {a \in SampleYears \X {1, 59, 60, 182, 183, 365, 366} \X {0, 23} \X {0, 59} :
            a[2] <= DaysInYear(a[1])}
    \cup ({2012} \X (1..366) \X {23} \X {59})
    \cup ({2012} \X {182} \X (0..23) \X {0, 59})
    \cup ({2012} \X {182} \X {0, 23} \X (0..59))

\* m = wwvblib.WWVBMinute(year, days, hour, min)
Construct ==
    /\ cpc = "new"
    /\ cmin' = WWVBMinute(cin[1], cin[2], cin[3], cin[4])
    /\ cpc' = "built"
    /\ UNCHANGED <<cin, ctc, cdec, cnext, cprev, cbad, syncVars, feedVars,
                   twoVars, iersVars>>

\* timecode = minute.as_timecode()
Encode ==
    /\ cpc = "built"
    /\ ctc' = as_timecode(cmin)
    /\ cpc' = "encoded"
    /\ UNCHANGED <<cin, cmin, cdec, cnext, cprev, cbad, syncVars, feedVars,
                   twoVars, iersVars>>

\* test_input.am[position] = wwvblib.AmplitudeModulation(noise)
Noise2(p, v) ==
    /\ cpc = "encoded"
    /\ p < Len(ctc)
    /\ v # ctc[p + 1]
    /\ ctc' = [ctc EXCEPT ![p + 1] = v]
    /\ cbad' = TRUE
    /\ cpc' = "noisy"
    /\ UNCHANGED <<cin, cmin, cdec, cnext, cprev, syncVars, feedVars,
                   twoVars, iersVars>>

\* decoded = wwvblib.WWVBMinute.from_timecode_am(timecode)
Decode ==
    /\ cpc \in {"encoded", "noisy"}
    /\ cdec' = from_timecode_am(ctc)
    /\ cpc' = "decoded"
    /\ UNCHANGED <<cin, cmin, ctc, cnext, cprev, cbad, syncVars, feedVars,
                   twoVars, iersVars>>

\* minute.next_minute()
NextMinute ==
    /\ cpc = "built"
    /\ cnext' = next_minute(cmin)
    /\ cpc' = "next"
    /\ UNCHANGED <<cin, cmin, ctc, cdec, cprev, cbad, syncVars, feedVars,
                   twoVars, iersVars>>

\* minute.next_minute().previous_minute()
PreviousMinute ==
    /\ cpc = "next"
    /\ cprev' = previous_minute(cnext)
    /\ cpc' = "previous"
    /\ UNCHANGED <<cin, cmin, ctc, cdec, cnext, cbad, syncVars, feedVars,
                   twoVars, iersVars>>

CodecInit ==
    /\ SyncFresh
    /\ FeedIdle
    /\ TwoIdle
    /\ IersIdle
    /\ cpc = "new"
    /\ cin \in CodecInputs
    /\ cmin = NoMinute
    /\ ctc = << >>
    /\ cdec = NoMinute
    /\ cnext = NoMinute
    /\ cprev = NoMinute
    /\ cbad = FALSE

CodecNext ==
    \/ Construct
    \/ Encode
    \/ \E p \in 0..60, v \in AmplitudeModulation : Noise2(p, v)
    \/ Decode
    \/ NextMinute
    \/ PreviousMinute

SpecCodec == CodecInit /\ [][CodecNext]_vars

(***************************************************************************)
(* The two synchronizers at work.                                          *)
(***************************************************************************)
\* decoded = decoder_i.send(code) or decoded
SendTo(i) ==
    /\ tpos[i] < Len(stream[i])
    /\ LET v == stream[i][tpos[i] + 1]
           used == ({inst[j].minute : j \in Inst} \cup
                    {held[j] : j \in Inst}) \ {Null}
           r == GeneratorStep(heap, inst[i].state, inst[i].minute, v, used)
           locals == [inst EXCEPT ![i] =
                         [state |-> r.state, minute |-> r.minute]]
           kept == [held EXCEPT ![i] = IF r.tc # Null THEN r.tc ELSE @]
           roots == <<locals[1].minute, locals[2].minute, kept[1], kept[2]>>
       IN
       /\ heap' = Collect(r.heap, roots)
       /\ inst' = [j \in Inst |->
                     [state |-> locals[j].state,
                      minute |-> Rank(roots, locals[j].minute)]]
       /\ held' = [j \in Inst |-> Rank(roots, kept[j])]
       /\ ret' = [ret EXCEPT ![i] =
                     IF r.tc # Null THEN r.heap[r.tc] ELSE None]
       /\ snap' = [snap EXCEPT ![i] =
                     IF r.tc # Null THEN r.heap[r.tc] ELSE @]
       /\ alone' = [alone EXCEPT ![i] = wwvbreceive(@.state, @.minute, v)]
       /\ tpos' = [tpos EXCEPT ![i] = @ + 1]
    /\ UNCHANGED <<stream, syncVars, feedVars, codecVars, iersVars>>

TwoInit ==
    /\ SyncFresh
    /\ FeedIdle
    /\ CodecIdle
    /\ TwoFresh
    /\ IersIdle
    /\ stream \in [Inst -> UNION {Streams[i] : i \in Inst}]
    /\ \A i \in Inst : stream[i] \in Streams[i]

TwoNext == \E i \in Inst : SendTo(i)

SpecTwo == TwoInit /\ [][TwoNext]_vars

(***************************************************************************)
(* update_iersdata at work.                                                *)
(***************************************************************************)
\* What update_iersdata leaves alone.
restVars == <<syncVars, feedVars, codecVars, twoVars>>

\* for r in csv.DictReader(...): rows_ consecutive rows whose UT1-UTC gives
\* the same offset.  The first row sets table_start and pads.
ReadRows(ms, rows_) ==
    /\ ipc = "iers"
    /\ nruns < MaxRuns
    /\ nruns' = nruns + 1
    /\ IF offsets = << >>
       THEN /\ offsets' = Runs(Padding(jd) \o Rep(offs(ms), rows_))
            /\ table_start' = IF jd > D1972_06_01 THEN D1972_06_01 ELSE jd
       ELSE /\ offsets' = Runs(offsets \o Rep(offs(ms), rows_))
            /\ table_start' = table_start
    /\ UNCHANGED <<ipc, jd, nnist, wwvb_dut1, wwvb_start, restVars>>

\* The rows are used up, or a row without UT1-UTC ends them.
EndOfRows ==
    /\ ipc = "iers"
    /\ offsets # << >>
    /\ ipc' = "nist"
    /\ UNCHANGED <<jd, offsets, table_start, nruns, nnist, wwvb_dut1,
                   wwvb_start, restVars>>

\* for row in wwvb_dut1_table...: the value of the row before holds up to
\* the date of this row.
NistRow(when, ms) ==
    /\ ipc = "nist"
    /\ nnist < MaxNist
    /\ nnist' = nnist + 1
    /\ offsets' = IF nnist > 0
                  THEN patch(offsets, table_start, wwvb_start, when, wwvb_dut1)
                  ELSE offsets
    /\ wwvb_dut1' = offs(ms)
    /\ wwvb_start' = when
    /\ UNCHANGED <<ipc, jd, table_start, nruns, restVars>>

\* patch(datetime.date(2009, 1, 1), datetime.date(2009, 3, 12), 4)
Patch2009 ==
    /\ ipc = "nist"
    /\ nnist > 0
    /\ offsets' = patch(offsets, table_start, D2009_01_01, D2009_03_12, 4)
    /\ ipc' = "final"
    /\ UNCHANGED <<jd, table_start, nruns, nnist, wwvb_dut1, wwvb_start,
                   restVars>>

\* patch(wwvb_start, wwvb_data_stamp + datetime.timedelta(days=1), wwvb_dut1)
PatchLast(wwvb_data_stamp) ==
    /\ ipc = "final"
    /\ offsets' = patch(offsets, table_start, wwvb_start, wwvb_data_stamp + 1,
                        wwvb_dut1)
    /\ ipc' = "done"
    /\ UNCHANGED <<jd, table_start, nruns, nnist, wwvb_dut1, wwvb_start,
                   restVars>>

update_iersdata ==
    \/ \E ms \in IersValues, rows_ \in IersRows : ReadRows(ms, rows_)
    \/ EndOfRows
    \/ \E when \in NistDates, ms \in NistValues : NistRow(when, ms)
    \/ Patch2009
    \/ \E stamp \in NistStamps : PatchLast(stamp)

IersInit ==
    /\ SyncFresh
    /\ FeedIdle
    /\ CodecIdle
    /\ TwoIdle
    /\ ipc = "iers"
    /\ jd \in IersStarts
    /\ offsets = << >>
    /\ table_start = 0
    /\ nruns = 0
    /\ nnist = 0
    /\ wwvb_dut1 = 0
    /\ wwvb_start = 0

SpecIers == IersInit /\ [][update_iersdata]_vars

(***************************************************************************)
(* Properties of the synchronizer.                                         *)
(***************************************************************************)
\* A step that sends one symbol to the decoder (every step of the
\* transmission but AdvanceMinute).
SendStep == \E v \in AmplitudeModulation : Send(v)

\* What was sent so far is one MARK and then the symbols of consecutive
\* minutes.
Clean == phase = "first" /\ noise = 0

\* C1: after one MARK on a fresh decoder, each of the consecutive minutes
\* (of 60 symbols, or of 61 with a leap second) yields exactly one
\* Timecode, on its 60th symbol, equal to the minute's first 60 symbols,
\* and none on any other symbol.
C1_ContinuousDecode ==
    Clean =>
        /\ pos < 60 => (ndec = 0 /\ decoded = None)
        /\ pos >= 60 => (ndec = 1 /\ decoded = SubSeq(tc, 1, 60))
        /\ (pos = 60 /\ value = tc[60]) => out = SubSeq(tc, 1, 60)

\* C1's case: the 61-symbol minute that follows a 60-symbol minute has been
\* sent whole and decoded.
C1_Witness ==
    /\ Clean
    /\ done >= 1
    /\ Len(tc) = 61
    /\ pos = 61
    /\ ndec = 1
    /\ decoded = SubSeq(tc, 1, 60)

\* The lead-in MARK and the first frame after it, received without noise,
\* after a prefix that caused no emission.
AfterQuietPrefix == phase # "idle" /\ quiet /\ ~dirty /\ done = 0

FrameDecodedOnce ==
    /\ pos < 60 => ndec = 0
    /\ pos >= 60 => (ndec = 1 /\ decoded = SubSeq(tc, 1, 60))

\* C2 as stated: after every prefix that causes no emission, one MARK and
\* the 60 symbols of a frame yield nothing before the frame's last symbol
\* and the frame on its last symbol.
C2_NoiseImmunity_AnyPrefix == AfterQuietPrefix => FrameDecodedOnce

\* C2, amended: the same, for every such prefix that does not leave the
\* decoder collecting with 9, 19, 29, 39, 49 or 59 symbols in its buffer
\* (where the lead-in MARK is taken for the marker the schedule expects).
C2_NoiseImmunity ==
    (AfterQuietPrefix /\ ~(pre.state = 4 /\ pre.len % 10 = 9))
        => FrameDecodedOnce

\* C2's case: the prefix (part of a transmission, with a wrong symbol in it)
\* left the decoder collecting, and the frame after the lead-in was decoded.
C2_Witness ==
    /\ phase = "final"
    /\ AfterQuietPrefix
    /\ noise = 1
    /\ pre.state = 4
    /\ pre.len % 10 # 9
    /\ pos = 60
    /\ out = SubSeq(tc, 1, 60)

\* C3: a symbol yields nothing or one Timecode; it yields a Timecode only
\* when it is the MARK that brings the buffer of state 4 to 60 symbols, and
\* the Timecode is those 60 symbols.
C3_OutputDiscipline ==
    [][SendStep =>
        \/ out' = None
        \/ /\ state = 4
           /\ Len(minute) = 59
           /\ value' = MARK
           /\ out' = Append(minute, value')
           /\ Len(out') = 60
           /\ \A i \in 1..60 : out'[i] \in AmplitudeModulation]_vars

\* C3's case: a Timecode was yielded after noise.
C3_Witness == out # None /\ Len(out) = 60 /\ noise = 1 /\ state = 2

\* The symbol sent in this step completes a minute: it is the MARK that
\* brings the buffer of state 4 to 60 symbols.
CompletesMinute == state = 4 /\ Len(minute) = 59 /\ value' = MARK

\* C8 as stated: after a Timecode is emitted the decoder is in state 3 (two
\* markers).
C8_AfterEmission_TwoMarkers == out # None => state = 3

\* C8, amended: the symbol that completes a minute yields the Timecode and
\* leaves the decoder in state 2 (one marker) with an empty buffer; the
\* symbol after it yields nothing and leaves an empty buffer, a MARK moving
\* the decoder to state 3 and any other symbol to state 1.
C8_AfterEmission ==
    [][SendStep =>
        /\ CompletesMinute =>
              (out' = Append(minute, MARK) /\ minute' = << >> /\ state' = 2)
        /\ out # None =>
              /\ state = 2
              /\ out' = None
              /\ minute' = << >>
              /\ state' = IF value' = MARK THEN 3 ELSE 1]_vars

\* C8's case: a minute was decoded and the next symbol, no MARK, has put the
\* decoder in state 1.
C8_Witness ==
    /\ phase = "first"
    /\ done >= 1
    /\ ndec = 0
    /\ pos = 1
    /\ noise = 1
    /\ emitted
    /\ value # MARK
    /\ state = 1
    /\ minute = << >>

\* The symbol sent in this step is a MARK where the schedule has none.
UnexpectedMark ==
    state = 4 /\ value' = MARK /\ (Len(minute) + 1) % 10 # 0

\* C9 as stated: an unexpected MARK in state 4 drops the buffer, yields
\* nothing and leaves the decoder in state 1.
C9_UnexpectedMark_Unsynced ==
    [][(SendStep /\ UnexpectedMark) =>
        (minute' = << >> /\ out' = None /\ state' = 1)]_vars

\* C9, amended: an unexpected MARK in state 4 drops the buffer, yields
\* nothing and leaves the decoder in state 2: the MARK is looked at again
\* in state 1, as the first marker of a lead-in.
C9_UnexpectedMark ==
    [][(SendStep /\ UnexpectedMark) =>
        (minute' = << >> /\ out' = None /\ state' = 2)]_vars

\* C9's case: a MARK arrived in the place of a frame symbol that is none,
\* while the decoder was collecting.
C9_Witness ==
    /\ phase = "first"
    /\ noise = 1
    /\ pos > 2
    /\ pos % 10 # 0
    /\ tc[pos] # MARK
    /\ value = MARK
    /\ state = 2
    /\ minute = << >>

\* The symbol sent in this step is no MARK where the schedule has one.
MissingMark ==
    state = 4 /\ value' # MARK /\ (Len(minute) + 1) % 10 = 0

\* The symbol sent in this step is no ZERO at an always-zero position.
NonZero ==
    state = 4 /\ value' # ZERO /\ Len(minute) \in always_zero

\* C10 as stated: a missing MARK, or a symbol other than ZERO at an
\* always-zero position, drops the buffer, yields nothing and leaves the
\* decoder in state 1.
C10_Violations_Unsynced ==
    [][(SendStep /\ (MissingMark \/ NonZero)) =>
        (minute' = << >> /\ out' = None /\ state' = 1)]_vars

\* C10, amended: a missing MARK, or a ONE at an always-zero position,
\* drops the buffer, yields nothing and leaves the decoder in state 1; a
\* MARK at an always-zero position drops the buffer, yields nothing and
\* leaves the decoder in state 2.
C10_Violations ==
    [][(SendStep /\ (MissingMark \/ NonZero)) =>
        /\ minute' = << >>
        /\ out' = None
        /\ state' = IF value' = MARK THEN 2 ELSE 1]_vars

\* C10's case: a ONE arrived at an always-zero position while the decoder
\* was collecting.
C10_Witness ==
    /\ phase = "first"
    /\ noise = 1
    /\ pos > 2
    /\ (pos - 1) \in always_zero
    /\ pre.state = 1
    /\ value = ONE
    /\ state = 1
    /\ minute = << >>

(***************************************************************************)
(* Properties of the codec and of the minute arithmetic.                   *)
(***************************************************************************)
\* C4: a valid minute, encoded and decoded, is the minute again, and
\* encodes to the same symbols (also in a leap year, and for the minute of
\* 61 symbols).
C4_RoundTrip ==
    (cpc = "decoded" /\ ~cbad) =>
        /\ cdec # NoMinute
        /\ MinuteEq(cdec, cmin)
        /\ cdec = cmin
        /\ as_timecode(cdec) = ctc

\* C4's case: the 61-symbol minute of a leap year was encoded and decoded.
C4_Witness ==
    /\ cpc = "decoded"
    /\ ~cbad
    /\ cmin.ly
    /\ cmin.ls
    /\ Len(ctc) = 61
    /\ cdec = cmin

\* C5: the minute before the minute after m is m, for every minute of the
\* epoch.
C5_PreviousNext ==
    cpc = "previous" => (MinuteEq(cprev, cmin) /\ cprev = cmin)

\* C5's case: m is the last minute of a leap year, with a leap second
\* scheduled; the minute after it is in the next year.
C5_Witness ==
    /\ cpc = "previous"
    /\ cmin.ls
    /\ cmin.days = 366
    /\ cmin.hour = 23
    /\ cmin.min = 59
    /\ cnext.year = cmin.year + 1
    /\ cnext.days = 1
    /\ cprev = cmin

\* The constructor's year argument was given in two digits.
TwoDigit == cin[1] < 100

\* C6: a two-digit year y is read as 2000 + y when y <= 69 and as 1900 + y
\* when y >= 70, and the minute constructed from it equals the minute
\* constructed from the full year.
C6_EpochPivot ==
    (cpc # "new" /\ TwoDigit) =>
        LET full == IF cin[1] <= 69 THEN 2000 + cin[1] ELSE 1900 + cin[1]
        IN  /\ cmin.year = full
            /\ MinuteEq(cmin, WWVBMinute(full, cin[2], cin[3], cin[4]))

\* C6's case: the minute was constructed with the year 70.
C6_Witness == cpc = "built" /\ cin[1] = 70 /\ cmin.year = 1970

\* One symbol of a valid 60-symbol Timecode was replaced, at a marker
\* position by ZERO or ONE, or at an always-zero position by ONE or MARK.
ScheduleViolated ==
    /\ cbad
    /\ Len(ctc) = 60
    /\ \/ \E p \in always_mark : ctc[p + 1] # MARK
       \/ \E p \in always_zero : ctc[p + 1] # ZERO

\* C7: decode returns no value for a Timecode with such a symbol.
C7_FailsClosed ==
    (cpc = "decoded" /\ ScheduleViolated) => cdec = NoMinute

\* C7's case: a Timecode with ONE at the always-zero position 54 was
\* decoded.
C7_Witness ==
    /\ cpc = "decoded"
    /\ ScheduleViolated
    /\ ctc[55] = ONE
    /\ cdec = NoMinute

(***************************************************************************)
(* C11: a fresh synchronizer is in state 1 (Unsynced).  In state 1 a MARK  *)
(* leads to state 2 (OneMarker) and any other symbol leaves state 1; in    *)
(* state 2 a MARK leads to state 3 (TwoMarkers) and any other symbol leads *)
(* back to state 1.  None of these steps returns a Timecode or leaves a    *)
(* symbol in the buffer.                                                   *)
(***************************************************************************)
LeadInStep ==
    SendStep /\ state \in {1, 2} =>
        /\ state = 1 => state' = IF value' = MARK THEN 2 ELSE 1
        /\ state = 2 => state' = IF value' = MARK THEN 3 ELSE 1
        /\ out' = None
        /\ minute' = << >>

C11_LeadIn == SyncFresh /\ [][LeadInStep]_vars

\* The MARK of the lead-in was followed by a symbol that is no MARK: from
\* state 2 back to state 1.
C11_Witness ==
    /\ phase = "first"
    /\ done = 0
    /\ pos = 1
    /\ noise = 1
    /\ ~emitted
    /\ value # MARK
    /\ state = 1
    /\ minute = << >>

(***************************************************************************)
(* C12: in state 3 (TwoMarkers) a MARK leaves the state and the empty      *)
(* buffer alone and returns nothing; the first symbol s that is no MARK    *)
(* leads to state 4 (Collecting) with the buffer <<MARK, s>> and returns   *)
(* nothing.                                                                *)
(***************************************************************************)
TwoMarkersStep ==
    SendStep /\ state = 3 =>
        /\ out' = None
        /\ IF value' = MARK
           THEN state' = 3 /\ minute' = << >> /\ minute = << >>
           ELSE state' = 4 /\ minute' = <<MARK, value'>>

C12_TwoMarkers == [][TwoMarkersStep]_vars

\* After a minute of 61 symbols: its two last MARKs and the first MARK of
\* the next minute were consumed in a row, and the next symbol started the
\* buffer.
C12_Witness ==
    /\ Clean
    /\ done >= 1
    /\ previous_minute(cur).ls
    /\ pos = 2
    /\ state = 4
    /\ minute = <<MARK, tc[2]>>

(***************************************************************************)
(* C13: every Timecode the synchronizer returns has MARK at the positions  *)
(* 0, 9, 19, 29, 39, 49, 59 and at no other, and ZERO at every always-zero *)
(* position.                                                               *)
(***************************************************************************)
C13_EmittedSchedule ==
    out # None =>
        /\ Len(out) = 60
        /\ \A i \in 0..59 :
              (out[i + 1] = MARK) <=> (i \in {0, 9, 19, 29, 39, 49, 59})
        /\ \A i \in always_zero : out[i + 1] = ZERO

\* A minute received with one symbol changed that the schedule does not
\* constrain, and returned as received.
C13_Witness ==
    /\ out # None
    /\ noise = 1
    /\ pos = 60
    /\ out # SubSeq(tc, 1, 60)

(***************************************************************************)
(* C18: between two sends, the buffer is non-empty exactly in state 4      *)
(* (Collecting); it then holds 2 to 59 symbols, the first is MARK, and the *)
(* symbol at index i >= 1 is MARK exactly if i is 9, 19, 29, 39 or 49.     *)
(* The buffer never holds more than 60 symbols.                            *)
(***************************************************************************)
C18_BufferInvariant ==
    /\ (minute # << >>) <=> (state = 4)
    /\ Len(minute) <= 60
    /\ state = 4 =>
        /\ Len(minute) \in 2..59
        /\ minute[1] = MARK
        /\ \A i \in 1..(Len(minute) - 1) :
              (minute[i + 1] = MARK) <=> (i \in {9, 19, 29, 39, 49})

\* One symbol before the minute is full, after noise.
C18_Witness ==
    /\ state = 4
    /\ Len(minute) = 59
    /\ noise = 1
    /\ minute[50] = MARK

(***************************************************************************)
(* C14: a Timecode the synchronizer returns is the 60 symbols sent last,   *)
(* its first symbol being a MARK that was sent, and the symbol sent before *)
(* those 60 was a MARK as well.  fed is a suffix of what was sent, so the  *)
(* statement needs it to reach that far back.                              *)
(***************************************************************************)
FaithfulStep ==
    SendStep /\ out' # None =>
        LET sent == Append(fed, value')
            n == Len(sent)
        IN
        /\ n >= 61
        /\ out' = SubSeq(sent, n - 59, n)
        /\ sent[n - 60] = MARK

C14_FaithfulEmission == [][FaithfulStep]_vars

\* A minute returned as it was received, with a changed data symbol.
C14_Witness ==
    /\ out # None
    /\ noisyCur
    /\ pos = 60
    /\ phase = "first"
    /\ \E i \in 2..59 : out[i] # tc[i]

(***************************************************************************)
(* C15: whatever state the synchronizer is in, once two consecutive        *)
(* minutes have been sent to it without noise, the second one has been     *)
(* returned, once, on its 60th symbol.                                     *)
(***************************************************************************)
TwoCleanFrames ==
    /\ phase # "idle"
    /\ done >= 1
    /\ ~noisyPrev
    /\ ~noisyCur

C15_Relock ==
    TwoCleanFrames =>
        /\ pos < 60 => ndec = 0
        /\ pos >= 60 => ndec = 1 /\ decoded = SubSeq(tc, 1, 60)

\* The second minute after a lead-in MARK that the buffer took as the
\* marker of a ten-symbol boundary: the first minute was lost.
C15_Witness ==
    /\ phase = "final"
    /\ quiet
    /\ pre.state = 4
    /\ pre.len \in {9, 19, 29, 39, 49}
    /\ done = 1
    /\ pos = 60
    /\ ndec = 1
    /\ decoded = SubSeq(tc, 1, 60)

(***************************************************************************)
(* C16: an emission comes at least 60 symbols after the one before it, and *)
(* a fresh synchronizer returns nothing for any of its first 60 symbols.   *)
(***************************************************************************)
SpacedStep ==
    SendStep /\ out' # None =>
        IF emitted THEN gap >= 59 ELSE gap >= 60

C16_EmissionSpacing == [][SpacedStep]_vars

\* The second of two emissions exactly 60 symbols apart.
C16_Witness ==
    /\ out # None
    /\ done >= 1
    /\ pos = 60
    /\ gap = 0
    /\ ~previous_minute(cur).ls
    /\ Clean

(***************************************************************************)
(* C17: whatever state the synchronizer was in, after three MARKs in a row *)
(* it is in state 3 (TwoMarkers) and its buffer is empty.                  *)
(***************************************************************************)
C17_ThreeMarks == marks = 3 => state = 3 /\ minute = << >>

\* A noise MARK that the buffer took as a scheduled marker, the lead-in
\* MARK and the MARK at position 0.
C17_Witness ==
    /\ marks = 3
    /\ phase = "final"
    /\ pos = 1
    /\ pre.state = 4
    /\ pre.len \in {10, 20, 30, 40, 50}
    /\ state = 3

(***************************************************************************)
(* C19: of two synchronizers fed in any interleaving, each returns for     *)
(* every symbol what it returns when it is fed its stream alone, and the   *)
(* symbols of a Timecode a caller holds stay as they were returned         *)
(* whatever is sent to either synchronizer later.                          *)
(***************************************************************************)
C19_Independence ==
    \A i \in Inst :
        /\ ret[i] = alone[i].out
        /\ inst[i].state = alone[i].state
        /\ heap[inst[i].minute] = alone[i].minute
        /\ held[i] # Null => heap[held[i]] = snap[i]

\* Both callers hold a Timecode, the second decoder has just returned its
\* one, and the first decoder has taken symbols into its buffer since it
\* returned its own.
C19_Witness ==
    /\ held[1] # Null
    /\ held[2] # Null
    /\ ret[2] # None
    /\ ret[1] = None
    /\ inst[1].state = 4
    /\ Len(heap[inst[1].minute]) > 2
    /\ snap[1] # snap[2]
    /\ heap[held[1]] = snap[1]

(***************************************************************************)
(* C20, as stated: every offset update_iersdata places in the table, from  *)
(* the IERS data, from the padding before the first IERS entry or from the *)
(* NIST table, is an integer in -7..7.                                     *)
(***************************************************************************)
C20_OffsetRange_7 == \A i \in DOMAIN offsets : offsets[i][1] \in -7..7

(***************************************************************************)
(* C20, amended: with UT1-UTC and DUT1 of the sources within 0.7 s, every  *)
(* offset update_iersdata places in the table is an integer in -7..7 or is *)
(* 8, and 8 is placed only by the padding, when the IERS data start after  *)
(* 1972-07-01.                                                             *)
(***************************************************************************)
C20_OffsetRange ==
    \A i \in DOMAIN offsets :
        \/ offsets[i][1] \in -7..7
        \/ offsets[i][1] = 8 /\ jd > D1972_07_01

\* The finished table for IERS data that start on 1973-01-02 and reach
\* beyond March 2009: the padding of 30 days of -2 and 185 days of 8, an
\* offset of 7 from the data, and the 4 of the patch of 2009.
C20_Witness ==
    /\ ipc = "done"
    /\ jd = 41684
    /\ RunsLen(offsets) > D2009_03_12 - D1972_06_01
    /\ offsets[1] = <<-2, 30>>
    /\ offsets[2] = <<8, 185>>
    /\ \E i \in DOMAIN offsets : offsets[i][1] = 7
    /\ \E i \in DOMAIN offsets : offsets[i] = <<4, 70>>

=============================================================================
